---- MODULE Spec2Model ----
(***************************************************************************)
(* Presence registry and message routing core of the valentine-iot server  *)
(* (src/server/app.py, src/server/database.py).                            *)
(*                                                                         *)
(* Connections are numbered 1..MaxConn in the order the transport opens    *)
(* them (a sid is never reused).  The registry is the Python dict          *)
(* connected_clients, kept as the sequence of its items in insertion       *)
(* order, because the recipient scan returns the first match in that       *)
(* order.  Under Spec each handler runs as one step; under SpecSteps the    *)
(* send handler runs in three (write, registry scan, emits) and the steps  *)
(* of other handlers may fall between them; SpecOta is the registry with   *)
(* the update endpoint (POST /update) reading it; SpecScan takes the        *)
(* registry scan of a send item by item; SpecClient drives the server      *)
(* with the devices' clients (src/client/client.py).                       *)
(*                                                                         *)
(* Not modelled: the text and timestamp columns and the text field of      *)
(* receive_emoji (they never influence control flow), and the value of     *)
(* Device.last_seen.  An event is recorded when the server emits it,       *)
(* whether or not the addressed connection is still there to receive it.   *)
(***************************************************************************)
EXTENDS Integers, Sequences, FiniteSets, TLC

\* ---------------------------------------------------------------- bounds
MaxConn == 2
MaxRegs == 2
MaxSends == 2

\* ------------------------------------------------------------ value sets
Sids == 1..MaxConn
\* Python None for a sid (recipient_sid = None)
NoSid == 0
\* Python None for message_id
NoId == 0
\* Python None for a payload field that is absent (data.get(...) -> None)
None == "<none>"
Names == {"chile", "miami"}
Emojis == {"heart"}
\* device_name of a register payload: either name, or absent
NameArg == Names \cup {None}
\* sender and recipient of a send_emoji payload: one name each, or absent
\* (which name is immaterial: the registry may hold either under any sid)
SenderArg == {"chile", None}
RecipientArg == {"miami", None}
\* emoji of a send_emoji payload
EmojiArg == Emojis
\* device of the JSON body of POST /update: a name, or absent
OtaArg == {"miami", None}
\* no HTTP response (the last step was a Socket.IO handler)
NoResponse == [device |-> None, recipients |-> 0]

VARIABLES
    conn,               \* transport state of each sid: "free", "open", "closed"
    connected_clients,  \* the registry dict, as its items in insertion order
    messages,           \* rows of table messages, in insertion order
    devices,            \* names of the rows of table devices
    emitted,            \* the events emitted by the last handler, in order
    request,            \* history: the event the last handler was run for
    regname,            \* history: device name of each sid's latest register
    regtime,            \* history: ordinal of each sid's latest register, 0 if none
    nsends,             \* history: number of send_emoji events handled
    response,           \* the JSON body the last step returned over HTTP, if any
    running,            \* the send handlers under way: sid -> position and locals
    client              \* the ValentineClient of each device: its socket and its sid

vars == <<conn, connected_clients, messages, devices, emitted, request, regname, regtime,
          nsends, response, running, client>>

\* --------------------------------------------------------- pure helpers
RECURSIVE SeqFilterSid(_, _)
\* the dict without key sid (del connected_clients[sid])
SeqFilterSid(items, sid) ==
    IF items = <<>> THEN <<>>
    ELSE IF Head(items).sid = sid THEN SeqFilterSid(Tail(items), sid)
         ELSE <<Head(items)>> \o SeqFilterSid(Tail(items), sid)

\* request.sid in connected_clients
HasKey(items, sid) == \E i \in 1..Len(items) : items[i].sid = sid

\* variant of RegistrySet: the item is added without looking for the key
RegistryAppend(items, sid, device) == Append(items, [sid |-> sid, name |-> device])

\* connected_clients[sid] = device: an existing key keeps its position,
\* a new key goes last
RegistrySet(items, sid, device) ==
    IF HasKey(items, sid)
    THEN [i \in 1..Len(items) |->
            IF items[i].sid = sid THEN [sid |-> sid, name |-> device] ELSE items[i]]
    ELSE Append(items, [sid |-> sid, name |-> device])

RECURSIVE SeqFilterName(_, _)
\* the dict without the items whose device name is name
SeqFilterName(items, name) ==
    IF items = <<>> THEN <<>>
    ELSE IF Head(items).name = name THEN SeqFilterName(Tail(items), name)
         ELSE <<Head(items)>> \o SeqFilterName(Tail(items), name)

\* variant of RegistryDel: removal keyed by the device name of the departing
\* connection instead of by its sid
RegistryDelByName(items, sid) ==
    IF \E i \in 1..Len(items) : items[i].sid = sid
    THEN SeqFilterName(items, items[CHOOSE i \in 1..Len(items) : items[i].sid = sid].name)
    ELSE items

\* variant of RegistryDel: the oldest item is removed, whoever holds it
RegistryDelHead(items, sid) == IF items = <<>> THEN items ELSE Tail(items)

\* variant of RegistryDel: the disconnect leaves the registry alone
RegistryDelNoop(items, sid) == items

\* if request.sid in connected_clients: del connected_clients[request.sid]
RegistryDel(items, sid) ==
    IF HasKey(items, sid) THEN SeqFilterSid(items, sid) ELSE items

\* variant of Lookup: the scan takes the first item without comparing names
LookupAny(items, recipient) ==
    IF items = <<>> THEN NoSid ELSE Head(items).sid

RECURSIVE Lookup(_, _)
\* the recipient scan: first item whose device name equals recipient, else None
Lookup(items, recipient) ==
    IF items = <<>> THEN NoSid
    ELSE IF Head(items).name = recipient THEN Head(items).sid
         ELSE Lookup(Tail(items), recipient)

\* variant of NextId: a constant key
NextIdSame(rows) == 1

\* Integer primary key of a table nothing is ever deleted from
NextId(rows) == Len(rows) + 1

\* session.add(msg); session.commit() succeeds: the store accepts the write
\* and no NOT NULL column (sender, recipient, emoji) is None
WriteOk(sender, recipient, emoji, dbOk) ==
    dbOk /\ sender # None /\ recipient # None /\ emoji # None

\* variant of Commit: the insert is never flushed to the table
CommitDropped(rows, row) == rows

\* variant of Commit: the insert is applied twice
CommitTwice(rows, row) == Append(Append(rows, row), row)

\* the rows after a committed insert
Commit(rows, row) == Append(rows, row)

\* variant of MessageId: the id is reported whether or not the write committed
MessageIdAlways(rows, ok) == NextId(rows)

\* message_id after the try/except: msg.id, or None after a rollback
MessageId(rows, ok) == IF ok THEN NextId(rows) ELSE NoId

\* the Device upsert commits: the store accepts it and name is not None
TouchOk(device, dbOk) == dbOk /\ device # None

\* events
EvConnected(sid) == [ev |-> "connected", to |-> sid, status |-> "ok"]
EvRegistered(sid, device) ==
    [ev |-> "registered", to |-> sid, device |-> device, status |-> "success"]
EvReceive(r) ==
    [ev |-> "receive_emoji", to |-> r.recipient_sid, sender |-> r.sender,
     recipient |-> r.recipient, emoji |-> r.emoji, message_id |-> r.message_id]
EvSent(sid, status, r) ==
    [ev |-> "emoji_sent", to |-> sid, status |-> status,
     recipient |-> r.recipient, message_id |-> r.message_id]

RECURSIVE Replay(_, _, _)
\* a receive_emoji to sid for every row of rows addressed to device
Replay(rows, sid, device) ==
    IF rows = <<>> THEN <<>>
    ELSE (IF Head(rows).recipient = device
          THEN <<[ev |-> "receive_emoji", to |-> sid, sender |-> Head(rows).sender,
                  recipient |-> Head(rows).recipient, emoji |-> Head(rows).emoji,
                  message_id |-> Head(rows).id]>>
          ELSE <<>>) \o Replay(Tail(rows), sid, device)

\* variant of RegisterEvents: the stored messages addressed to the device are
\* delivered when it registers
RegisterEventsReplay(sid, device, ok) ==
    <<EvRegistered(sid, device)>> \o Replay(messages, sid, device)

\* variant of RegisterEvents: the confirmation is emitted only when the
\* last-seen write committed
RegisterEventsIfTouched(sid, device, ok) ==
    IF ok THEN <<EvRegistered(sid, device)>> ELSE <<>>

\* what handle_register emits after the try/except/finally around the
\* last-seen write, ok telling whether that write committed
RegisterEvents(sid, device, ok) == <<EvRegistered(sid, device)>>

\* variant of SendEvents: a registered sending connection has the name it
\* registered under put in place of the payload's sender
SendEventsOwnName(sid, r) ==
    LET own == IF HasKey(connected_clients, sid)
               THEN connected_clients[CHOOSE i \in 1..Len(connected_clients) :
                                          connected_clients[i].sid = sid].name
               ELSE r.sender
        q == [r EXCEPT !.sender = own]
    IN IF q.recipient_sid # NoSid
       THEN <<EvReceive(q), EvSent(sid, "delivered", q)>>
       ELSE <<EvSent(sid, "recipient_offline", q)>>

\* variant of SendEvents: the delivered branch acknowledges without emitting
\* receive_emoji
SendEventsAckOnly(sid, r) ==
    IF r.recipient_sid # NoSid
    THEN <<EvSent(sid, "delivered", r)>>
    ELSE <<EvSent(sid, "recipient_offline", r)>>

\* what the last part of handle_send_emoji emits for locals r on connection sid
SendEvents(sid, r) ==
    IF r.recipient_sid # NoSid
    THEN <<EvReceive(r), EvSent(sid, "delivered", r)>>
    ELSE <<EvSent(sid, "recipient_offline", r)>>

\* variant of AfterWrite: a failed write ends the handler
AfterWriteAbort(ok, events) == IF ok THEN events ELSE <<>>

\* what handle_send_emoji goes on to emit after the try/except/finally around
\* the write: the routing part runs whether the write committed or rolled back
AfterWrite(ok, events) == events

\* request.json.get('device', 'all') if request.json else 'all'
OtaDevice(arg) == IF arg = None THEN "all" ELSE arg

\* the ota_update event addressed to connection sid
EvOta(sid) == [ev |-> "ota_update", to |-> sid, action |-> "git_pull"]

\* variant of OtaSelected: the device filter is ignored
OtaSelectedAny(name, device) == TRUE

\* the condition of the loop of ota_update on a registry item
OtaSelected(name, device) == device = "all" \/ name = device

RECURSIVE OtaEvents(_, _)
\* the events the loop of ota_update emits over the registry items, in order
OtaEvents(items, device) ==
    IF items = <<>> THEN <<>>
    ELSE (IF OtaSelected(Head(items).name, device) THEN <<EvOta(Head(items).sid)>> ELSE <<>>)
         \o OtaEvents(Tail(items), device)

RECURSIVE OtaCount(_, _)
\* the value of count when the loop of ota_update ends
OtaCount(items, device) ==
    IF items = <<>> THEN 0
    ELSE (IF OtaSelected(Head(items).name, device) THEN 1 ELSE 0)
         + OtaCount(Tail(items), device)

\* number of register events handled so far
NRegs == LET S == {regtime[c] : c \in Sids} IN CHOOSE m \in S : \A k \in S : k <= m

\* the inbound event a handler runs for: its name, request.sid, its payload
\* fields, and whether the store accepted the handler's write
Request(ev, sid, device, sender, recipient, emoji, dbOk) ==
    [ev |-> ev, sid |-> sid, device |-> device, sender |-> sender,
     recipient |-> recipient, emoji |-> emoji, dbok |-> dbOk]

\* where the send handler of connection c stands: "idle" when none is under
\* way, "persisted" after the log write, "scanning" inside the registry scan,
\* "resolved" after it
pc(c) == IF c \in DOMAIN running THEN running[c].pc ELSE "idle"

\* no register event emitted on the client's present connection
NoEmit == "<no event>"

\* a ValentineClient whose socket is not connected
ClientDown == [pc |-> "down", sid |-> NoSid, register |-> NoEmit]

\* self.recipient of the client of device d
Other(d) == IF d = "chile" THEN "miami" ELSE "chile"

\* ---------------------------------------------------------------- state
Init ==
    /\ conn = [c \in Sids |-> "free"]
    /\ connected_clients = <<>>
    /\ messages = <<>>
    /\ devices = {}
    /\ emitted = <<>>
    /\ request = Request("none", NoSid, None, None, None, None, TRUE)
    /\ regname = [c \in Sids |-> None]
    /\ regtime = [c \in Sids |-> 0]
    /\ nsends = 0
    /\ response = NoResponse
    /\ running = <<>>
    /\ client = [d \in Names |-> ClientDown]

\* a new transport connection: the next unused sid
handle_connect(c) ==
    /\ conn[c] = "free"
    /\ \A d \in Sids : d < c => conn[d] # "free"
    /\ conn' = [conn EXCEPT ![c] = "open"]
    /\ emitted' = <<EvConnected(c)>>
    /\ request' = Request("connect", c, None, None, None, None, TRUE)
    /\ response' = NoResponse
    /\ UNCHANGED <<connected_clients, messages, devices, regname, regtime, nsends, running, client>>

\* the transport reports the connection gone
handle_disconnect(c) ==
    /\ conn[c] = "open"
    /\ conn' = [conn EXCEPT ![c] = "closed"]
    /\ connected_clients' = RegistryDel(connected_clients, c)
    /\ emitted' = <<>>
    /\ request' = Request("disconnect", c, None, None, None, None, TRUE)
    /\ response' = NoResponse
    /\ UNCHANGED <<messages, devices, regname, regtime, nsends, running, client>>

\* register event with payload {device_name: device} (None when absent)
handle_register(c, device, dbOk) ==
    /\ conn[c] = "open"
    /\ NRegs < MaxRegs
    /\ connected_clients' = RegistrySet(connected_clients, c, device)
    /\ devices' = IF TouchOk(device, dbOk) THEN devices \cup {device} ELSE devices
    /\ emitted' = RegisterEvents(c, device, TouchOk(device, dbOk))
    /\ request' = Request("register", c, device, None, None, None, dbOk)
    /\ regname' = [regname EXCEPT ![c] = device]
    /\ regtime' = [regtime EXCEPT ![c] = NRegs + 1]
    /\ response' = NoResponse
    /\ UNCHANGED <<conn, messages, nsends, running, client>>

\* send_emoji event with payload {sender, recipient, emoji} (None when absent)
handle_send_emoji(c, sender, recipient, emoji, dbOk) ==
    /\ conn[c] = "open"
    /\ nsends < MaxSends
    /\ LET ok == WriteOk(sender, recipient, emoji, dbOk)
           message_id == MessageId(messages, ok)
           recipient_sid == Lookup(connected_clients, recipient)
           r == [sender |-> sender, recipient |-> recipient, emoji |-> emoji,
                 message_id |-> message_id, recipient_sid |-> recipient_sid]
       IN /\ messages' = IF ok
                         THEN Commit(messages, [id |-> message_id, sender |-> sender,
                                                recipient |-> recipient, emoji |-> emoji])
                         ELSE messages
          /\ emitted' = AfterWrite(ok, SendEvents(c, r))
    /\ request' = Request("send_emoji", c, None, sender, recipient, emoji, dbOk)
    /\ nsends' = nsends + 1
    /\ response' = NoResponse
    /\ UNCHANGED <<conn, connected_clients, devices, regname, regtime, running, client>>

\* POST /update with JSON body {device: arg} (None when absent)
ota_update(arg) ==
    /\ LET device == OtaDevice(arg)
       IN /\ emitted' = OtaEvents(connected_clients, device)
          /\ response' = [device |-> device,
                          recipients |-> OtaCount(connected_clients, device)]
    /\ request' = Request("ota_update", NoSid, arg, None, None, None, TRUE)
    /\ UNCHANGED <<conn, connected_clients, messages, devices, regname, regtime, nsends, running, client>>

\* the registry under the register and disconnect handlers, and the update
\* endpoint reading it
NextOta ==
    \/ \E c \in Sids : handle_connect(c)
    \/ \E c \in Sids : handle_disconnect(c)
    \/ \E c \in Sids, device \in NameArg, dbOk \in BOOLEAN : handle_register(c, device, dbOk)
    \/ \E arg \in OtaArg : ota_update(arg)

SpecOta == Init /\ [][NextOta]_vars

Next ==
    \/ \E c \in Sids : handle_connect(c)
    \/ \E c \in Sids : handle_disconnect(c)
    \/ \E c \in Sids, device \in NameArg, dbOk \in BOOLEAN : handle_register(c, device, dbOk)
    \/ \E c \in Sids, sender \in SenderArg, recipient \in RecipientArg, emoji \in EmojiArg :
          \* a write without a required column fails whatever the store does
          \E dbOk \in (IF sender = None \/ recipient = None THEN {FALSE} ELSE BOOLEAN) :
             handle_send_emoji(c, sender, recipient, emoji, dbOk)

Spec == Init /\ [][Next]_vars

\* ------------------------------------------- the send handler step by step
\* Handlers of different connections run concurrently, so a register, a
\* disconnect or another send may run between the parts of one send handler.
\* The payloads are complete and the registers are those of the recipient's
\* device, the only ones the scan of a send can find.
\* send_emoji, first part: read the payload and write the message log
SendPersist(c, sender, recipient, emoji, dbOk) ==
    /\ conn[c] = "open"
    /\ pc(c) = "idle"
    /\ nsends < MaxSends
    /\ LET ok == WriteOk(sender, recipient, emoji, dbOk)
           message_id == MessageId(messages, ok)
       IN /\ messages' = IF ok
                         THEN Commit(messages, [id |-> message_id, sender |-> sender,
                                                recipient |-> recipient, emoji |-> emoji])
                         ELSE messages
          /\ running' = [d \in DOMAIN running \cup {c} |->
                             IF d = c
                             THEN [pc |-> "persisted", sender |-> sender,
                                   recipient |-> recipient, emoji |-> emoji,
                                   dbok |-> dbOk, message_id |-> message_id,
                                   recipient_sid |-> NoSid]
                             ELSE running[d]]
    /\ emitted' = <<>>
    /\ request' = Request("send_emoji", c, None, sender, recipient, emoji, dbOk)
    /\ nsends' = nsends + 1
    /\ response' = NoResponse
    /\ UNCHANGED <<conn, connected_clients, devices, regname, regtime, client>>

\* send_emoji, second part: scan the registry for the recipient
SendLookup(c) ==
    /\ pc(c) = "persisted"
    /\ running' = [running EXCEPT
                      ![c].recipient_sid = Lookup(connected_clients, running[c].recipient),
                      ![c].pc = "resolved"]
    /\ emitted' = <<>>
    /\ request' = Request("send_emoji", c, None, running[c].sender, running[c].recipient,
                          running[c].emoji, running[c].dbok)
    /\ response' = NoResponse
    /\ UNCHANGED <<conn, connected_clients, messages, devices, regname, regtime, nsends, client>>

\* send_emoji, third part: emit to the recipient and acknowledge the sender
SendEmit(c) ==
    /\ pc(c) = "resolved"
    /\ emitted' = AfterWrite(running[c].message_id # NoId, SendEvents(c, running[c]))
    /\ running' = [d \in DOMAIN running \ {c} |-> running[d]]
    /\ request' = Request("send_emoji", c, None, running[c].sender, running[c].recipient,
                          running[c].emoji, running[c].dbok)
    /\ response' = NoResponse
    /\ UNCHANGED <<conn, connected_clients, messages, devices, regname, regtime, nsends, client>>

NextSteps ==
    \/ \E c \in Sids : handle_connect(c)
    \/ \E c \in Sids : handle_disconnect(c)
    \/ \E c \in Sids, device \in RecipientArg \ {None} : handle_register(c, device, TRUE)
    \/ \E c \in Sids, sender \in SenderArg \ {None}, recipient \in RecipientArg \ {None},
          emoji \in EmojiArg, dbOk \in BOOLEAN : SendPersist(c, sender, recipient, emoji, dbOk)
    \/ \E c \in Sids : SendLookup(c)
    \/ \E c \in Sids : SendEmit(c)

SpecSteps == Init /\ [][NextSteps]_vars

\* ------------------------------------------ the registry scan item by item
\* The loop over connected_clients.items() holds no lock: with a threaded
\* server the steps of other handlers may fall between two items of a scan.
\* The dict iterator keeps the size of the dict at its creation and its
\* position; the entries are taken as closed up after a deletion.
\* for sid, device_name in connected_clients.items(): the iterator is created
SendScanStart(c) ==
    /\ pc(c) = "persisted"
    /\ running' = [running EXCEPT ![c] =
                      [pc |-> "scanning", sender |-> running[c].sender,
                       recipient |-> running[c].recipient, emoji |-> running[c].emoji,
                       dbok |-> running[c].dbok, message_id |-> running[c].message_id,
                       recipient_sid |-> NoSid,
                       pos |-> 0, size |-> Len(connected_clients)]]
    /\ emitted' = <<>>
    /\ request' = Request("send_emoji", c, None, running[c].sender, running[c].recipient,
                          running[c].emoji, running[c].dbok)
    /\ response' = NoResponse
    /\ UNCHANGED <<conn, connected_clients, messages, devices, regname, regtime, nsends, client>>

\* one turn of the loop: the iterator raises RuntimeError when the dict has
\* changed size (the handler ends, nothing is emitted), stops at the end, or
\* yields the next item, which the loop body compares with the recipient
SendScanNext(c) ==
    /\ pc(c) = "scanning"
    /\ LET r == running[c]
       IN IF Len(connected_clients) # r.size
          THEN running' = [d \in DOMAIN running \ {c} |-> running[d]]
          ELSE IF r.pos = r.size
          THEN running' = [running EXCEPT ![c].pc = "resolved"]
          ELSE IF connected_clients[r.pos + 1].name = r.recipient
          THEN running' = [running EXCEPT
                              ![c].recipient_sid = connected_clients[r.pos + 1].sid,
                              ![c].pc = "resolved"]
          ELSE running' = [running EXCEPT ![c].pos = r.pos + 1]
    /\ emitted' = <<>>
    /\ request' = Request("send_emoji", c, None, running[c].sender, running[c].recipient,
                          running[c].emoji, running[c].dbok)
    /\ response' = NoResponse
    /\ UNCHANGED <<conn, connected_clients, messages, devices, regname, regtime, nsends, client>>

NextScan ==
    \/ \E c \in Sids : handle_connect(c)
    \/ \E c \in Sids : handle_disconnect(c)
    \/ \E c \in Sids, device \in Names : handle_register(c, device, TRUE)
    \/ \E c \in Sids, sender \in SenderArg \ {None}, recipient \in RecipientArg \ {None},
          emoji \in EmojiArg : SendPersist(c, sender, recipient, emoji, TRUE)
    \/ \E c \in Sids : SendScanStart(c)
    \/ \E c \in Sids : SendScanNext(c)
    \/ \E c \in Sids : SendEmit(c)

SpecScan == Init /\ [][NextScan]_vars

\* --------------------------------------------------- the devices' clients
\* Each device runs one ValentineClient (src/client/client.py).  Its socket
\* is "down", "connecting" (the transport is being opened, the connect event
\* has not reached the client) or "connected" (on_connect has run).  The
\* server handles a connection's events while the client holds it; it learns
\* of a connection the client has lost through handle_disconnect.

\* the connections no client holds any more, still open at the server
Orphan(c) == conn[c] = "open" /\ \A d \in Names : client[d].sid # c

\* the register events still to be handled for the clients' present connections
PendingRegs ==
    Cardinality({d \in Names : /\ client[d].pc # "down"
                               /\ conn[client[d].sid] # "closed"
                               /\ regtime[client[d].sid] = 0})

\* sio.connect(), or the automatic reconnect of socketio.Client
\* (reconnection=True, reconnection_attempts=0): the client opens a transport
\* connection, which will get the next unused sid
ClientConnect(d, c) ==
    /\ client[d].pc = "down"
    /\ conn[c] = "free"
    /\ \A e \in Sids : e < c => conn[e] # "free"
    /\ \A e \in Names : client[e].sid # c
    /\ NRegs + PendingRegs < MaxRegs
    /\ client' = [client EXCEPT ![d] = [pc |-> "connecting", sid |-> c, register |-> NoEmit]]
    /\ UNCHANGED <<conn, connected_clients, messages, devices, emitted, request, regname,
                   regtime, nsends, response, running>>

\* the server accepts the connection client d is opening
ServerConnect(d) ==
    /\ client[d].pc = "connecting"
    /\ handle_connect(client[d].sid)

\* variant of ClientOnConnect: the handler emits no register event
ClientOnConnectSilent(d) ==
    /\ client[d].pc = "connecting"
    /\ conn[client[d].sid] = "open"
    /\ client' = [client EXCEPT ![d].pc = "connected"]
    /\ UNCHANGED <<conn, connected_clients, messages, devices, emitted, request, regname,
                   regtime, nsends, response, running>>

\* on_connect: the connect event reaches the client, which emits register
\* with its own device name
ClientOnConnect(d) ==
    /\ client[d].pc = "connecting"
    /\ conn[client[d].sid] = "open"
    /\ client' = [client EXCEPT ![d].pc = "connected", ![d].register = d]
    /\ UNCHANGED <<conn, connected_clients, messages, devices, emitted, request, regname,
                   regtime, nsends, response, running>>

\* the register event client d emitted reaches the server
ServerRegister(d, dbOk) ==
    /\ client[d].pc = "connected"
    /\ client[d].register # NoEmit
    /\ regtime[client[d].sid] = 0
    /\ handle_register(client[d].sid, client[d].register, dbOk)

\* _on_touch: a connected client sends an emoji to the other device
ClientTouch(d, emoji, dbOk) ==
    /\ client[d].pc = "connected"
    /\ handle_send_emoji(client[d].sid, d, Other(d), emoji, dbOk)

\* the client's socket is lost, or the client learns that the server has
\* closed it (on_disconnect); the library will reconnect
ClientOnDisconnect(d) ==
    /\ client[d].pc # "down"
    /\ client' = [client EXCEPT ![d] = ClientDown]
    /\ UNCHANGED <<conn, connected_clients, messages, devices, emitted, request, regname,
                   regtime, nsends, response, running>>

\* the client learns of a connection the server has closed
ClientNotices(d) ==
    /\ client[d].pc # "down"
    /\ conn[client[d].sid] = "closed"
    /\ ClientOnDisconnect(d)

\* the transport reports to the server a connection its client has lost
ServerReaps(c) == Orphan(c) /\ handle_disconnect(c)

NextClient ==
    \/ \E d \in Names, c \in Sids : ClientConnect(d, c)
    \/ \E d \in Names : ServerConnect(d)
    \/ \E d \in Names : ClientOnConnect(d)
    \/ \E d \in Names, dbOk \in BOOLEAN : ServerRegister(d, dbOk)
    \* the touches of one device are enough: the two clients differ in name only
    \/ \E d \in SenderArg \ {None}, emoji \in EmojiArg : ClientTouch(d, emoji, TRUE)
    \/ \E d \in Names : ClientOnDisconnect(d)
    \/ \E c \in Sids : handle_disconnect(c)

\* an event emitted on a connection that stays up is handled, a closed
\* connection is noticed by its client, and a lost one by the server
FairClient ==
    /\ \A d \in Names : WF_vars(ServerConnect(d))
    /\ \A d \in Names : WF_vars(ClientOnConnect(d))
    /\ \A d \in Names : WF_vars(\E dbOk \in BOOLEAN : ServerRegister(d, dbOk))
    /\ \A d \in Names : WF_vars(ClientNotices(d))
    /\ \A c \in Sids : WF_vars(ServerReaps(c))

SpecClient == Init /\ [][NextClient]_vars /\ FairClient

TypeOK ==
    /\ conn \in [Sids -> {"free", "open", "closed"}]
    /\ devices \subseteq Names
    /\ nsends \in 0..MaxSends
    /\ DOMAIN running \subseteq Sids
    /\ \A c \in Sids : pc(c) \in {"idle", "persisted", "scanning", "resolved"}

\* ------------------------------------------------------- claim vocabulary
\* the registry maps connection c to device name a
Holds(items, c, a) == \E i \in 1..Len(items) : items[i].sid = c /\ items[i].name = a

\* connection d is open and its latest register gave device name a
RegisteredLive(d, a) == conn[d] = "open" /\ regtime[d] > 0 /\ regname[d] = a

\* some open connection is registered under device name a
Online(a) == \E d \in Sids : RegisteredLive(d, a)

\* c is, among the open connections registered under a, the one that
\* registered most recently
NewestLive(c, a) ==
    /\ RegisteredLive(c, a)
    /\ \A d \in Sids : RegisteredLive(d, a) => regtime[d] <= regtime[c]

\* the last handler ran for a send_emoji event
SendHandled == request.ev = "send_emoji"

\* the send_emoji payload carries every required field
WellFormed == request.sender # None /\ request.recipient # None /\ request.emoji # None

\* the last send's log write committed: the store accepted it and no
\* required column was missing
WriteCommitted == request.dbok /\ WellFormed

\* e is a receive_emoji of the last send, emitted to connection d
IsReceive(e, d) ==
    /\ e.ev = "receive_emoji" /\ e.to = d
    /\ e.sender = request.sender /\ e.recipient = request.recipient
    /\ e.emoji = request.emoji

\* e is an emoji_sent of the last send with the given status, emitted to the
\* sending connection
IsAck(e, status) ==
    /\ e.ev = "emoji_sent" /\ e.to = request.sid /\ e.status = status
    /\ e.recipient = request.recipient

\* the newest row of the message log is the row of the last send, under id
LastRowIs(id) ==
    /\ messages # <<>>
    /\ messages[Len(messages)] =
           [id |-> id, sender |-> request.sender,
            recipient |-> request.recipient, emoji |-> request.emoji]

\* the last send emitted exactly one receive_emoji, to an open connection
\* registered under the recipient name, then exactly one delivered emoji_sent
\* to the sender, both with the same message_id
EmittedDelivered ==
    /\ Len(emitted) = 2
    /\ \E d \in Sids : RegisteredLive(d, request.recipient) /\ IsReceive(emitted[1], d)
    /\ IsAck(emitted[2], "delivered")
    /\ emitted[1].message_id = emitted[2].message_id

\* the last send emitted exactly one recipient_offline emoji_sent to the
\* sender and nothing else
EmittedOffline ==
    /\ Len(emitted) = 1
    /\ IsAck(emitted[1], "recipient_offline")

\* the message_id of the last send's acknowledgment is the id of its row when
\* the write committed and null when it failed
AckIdMatchesWrite ==
    LET id == emitted[Len(emitted)].message_id
    IN IF WriteCommitted THEN id # NoId /\ LastRowIs(id) ELSE id = NoId

\* ------------------------------------------------------------------ C1
\* C1: in every reachable state each device name is associated with at most
\* one connection identity in the registry.
C1_OneConnectionPerName ==
    \A i, j \in 1..Len(connected_clients) :
        ( /\ connected_clients[i].name \in Names
          /\ connected_clients[i].name = connected_clients[j].name )
        => connected_clients[i].sid = connected_clients[j].sid

\* ------------------------------------------------------------------ C2
\* C2: when connection c1, registered under device name a, disconnects while
\* a later registered connection c2 is registered under a too, c2 still holds
\* a, a lookup of a still resolves, and it resolves to c2 when no third
\* connection is registered under a.
C2_StaleDisconnectKeepsNewer ==
    \A c1, c2 \in Sids, a \in Names :
        ( /\ request.ev = "disconnect" /\ request.sid = c1
          /\ regtime[c1] > 0 /\ regname[c1] = a
          /\ RegisteredLive(c2, a)
          /\ regtime[c1] < regtime[c2] )
        => /\ Holds(connected_clients, c2, a)
           /\ Lookup(connected_clients, a) # NoSid
           /\ (\A d \in Sids \ {c1, c2} : ~RegisteredLive(d, a))
                  => Lookup(connected_clients, a) = c2

\* connection c1, registered under a, has just disconnected; c2 registered
\* under a after c1 did, and a lookup of a resolves to c2
C2_Witness ==
    \E c1, c2 \in Sids, a \in Names :
        /\ request.ev = "disconnect" /\ request.sid = c1
        /\ regtime[c1] > 0 /\ regname[c1] = a
        /\ RegisteredLive(c2, a)
        /\ regtime[c1] < regtime[c2]
        /\ Lookup(connected_clients, a) = c2

\* ------------------------------------------------------------------ C3
\* C3: when the recipient name of a send is registered on two open
\* connections, the receive_emoji of the send is emitted to the one that
\* registered most recently.  (Stated for sends whose log write committed.)
C3_LastRegisterWinsRouting ==
    \A c1, c2 \in Sids :
        ( /\ SendHandled /\ WriteCommitted
          /\ c1 # c2
          /\ RegisteredLive(c1, request.recipient)
          /\ NewestLive(c2, request.recipient) )
        => /\ Len(emitted) = 2
           /\ IsReceive(emitted[1], c2)

\* ------------------------------------------------------------------ C4
\* C4 as stated: a send whose recipient name has a live registered connection
\* emits exactly one receive_emoji, to the recipient's connection, and exactly
\* one delivered emoji_sent to the sender, both with the message_id of the row
\* persisted for that send.  (Stated for payloads with every required field.)
C4_DeliveredWithRowId ==
    (SendHandled /\ WellFormed /\ Online(request.recipient))
        => /\ EmittedDelivered
           /\ emitted[2].message_id # NoId
           /\ LastRowIs(emitted[2].message_id)

\* C4 as amended: ... both carry the same message_id, which is the id of the
\* row persisted for that send when the log write committed and null when it
\* failed.
C4_DeliveredSameId ==
    (SendHandled /\ Online(request.recipient))
        => /\ EmittedDelivered
           /\ AckIdMatchesWrite

\* a delivered send whose write committed
C4_Witness ==
    /\ SendHandled /\ Online(request.recipient) /\ WriteCommitted
    /\ EmittedDelivered
    /\ LastRowIs(emitted[2].message_id)

\* ------------------------------------------------------------------ C5
\* C5 as stated: a send whose recipient name has no live registered connection
\* emits exactly one emoji_sent to the sender, with status recipient_offline
\* and the non-null message_id of the persisted row, and no receive_emoji.
\* (Stated for payloads with every required field.)
C5_OfflineWithRowId ==
    (SendHandled /\ WellFormed /\ ~Online(request.recipient))
        => /\ EmittedOffline
           /\ emitted[1].message_id # NoId
           /\ LastRowIs(emitted[1].message_id)

\* C5 as amended: ... it carries the message_id of the persisted row when the
\* log write committed and a null message_id when it failed ...
C5_OfflineSameId ==
    (SendHandled /\ ~Online(request.recipient))
        => /\ EmittedOffline
           /\ AckIdMatchesWrite

\* a committed send to a name nobody is registered under, while another name
\* is registered
C5_Witness ==
    /\ SendHandled /\ ~Online(request.recipient) /\ WriteCommitted
    /\ connected_clients # <<>>
    /\ EmittedOffline
    /\ LastRowIs(emitted[1].message_id)

\* ------------------------------------------------------------------ C6
\* C6 as stated: every send_emoji event handled adds exactly one row to the
\* message log.  (Stated for payloads with every required field.)
C6_OneRowPerSend ==
    [][(nsends' = nsends + 1 /\ request'.sender # None /\ request'.recipient # None)
          => Len(messages') = Len(messages) + 1]_vars

\* C6 as amended: a send whose log write commits adds exactly one row, the row
\* of that send; a send whose write fails adds none; no other handler changes
\* the log, so the log never has more rows than sends were handled.
C6_OneRowPerCommittedSend ==
    [][/\ nsends' = nsends + 1
            => IF request'.dbok /\ request'.sender # None /\ request'.recipient # None
               THEN /\ Len(messages') = Len(messages) + 1
                    /\ SubSeq(messages', 1, Len(messages)) = messages
                    /\ messages'[Len(messages')].sender = request'.sender
                    /\ messages'[Len(messages')].recipient = request'.recipient
                    /\ messages'[Len(messages')].emoji = request'.emoji
               ELSE messages' = messages
       /\ nsends' = nsends => messages' = messages
       /\ Len(messages') <= nsends']_vars

\* two sends have been handled, one committed its row and one failed to
C6_Witness ==
    /\ nsends = 2
    /\ Len(messages) = 1

\* ------------------------------------------------------------------ C7
\* C7: a disconnect removes the connection's mapping and the registry never
\* maps a closed connection, so a send addressed to a name that no open
\* connection is registered under is acknowledged recipient_offline and no
\* receive_emoji is emitted for it.
C7_DisconnectedNeverTarget ==
    /\ request.ev = "disconnect" => ~HasKey(connected_clients, request.sid)
    /\ \A i \in 1..Len(connected_clients) : conn[connected_clients[i].sid] = "open"
    /\ (SendHandled /\ ~Online(request.recipient)) => EmittedOffline

\* a recipient_offline acknowledgment for a name whose registered connection
\* has disconnected, no other connection being registered under the name
C7_Witness ==
    /\ SendHandled /\ request.recipient \in Names
    /\ \E d \in Sids : /\ conn[d] = "closed" /\ regtime[d] > 0
                       /\ regname[d] = request.recipient
    /\ ~Online(request.recipient)
    /\ EmittedOffline

\* ------------------------------------------------------------------ C8
\* C8: a send_emoji on a connection that never registered is rejected: the
\* sender gets an "unregistered" acknowledgment and no receive_emoji is
\* emitted.  (Stated for sends whose log write committed.)
C8_UnregisteredSendRejected ==
    (SendHandled /\ WriteCommitted /\ regtime[request.sid] = 0)
        => /\ Len(emitted) = 1
           /\ IsAck(emitted[1], "unregistered")

\* ------------------------------------------------------------------ C9
\* C9: a register without device_name adds no registry entry and is not
\* confirmed; a send_emoji without recipient is never forwarded nor reported
\* as delivered.
C9_MissingFieldRejected ==
    /\ \A i \in 1..Len(connected_clients) : connected_clients[i].name # None
    /\ (request.ev = "register" /\ request.device = None)
          => \A i \in 1..Len(emitted) : emitted[i].ev # "registered"
    /\ (SendHandled /\ request.recipient = None)
          => \A i \in 1..Len(emitted) :
                 /\ emitted[i].ev # "receive_emoji"
                 /\ emitted[i].status # "delivered"

\* ----------------------------------------------------------------- C10
\* C10: a send whose log write failed is still routed: when an open
\* connection is registered under the recipient name the receive_emoji is
\* emitted to such a connection, and in either case the sender gets exactly
\* one acknowledgment.
C10_WriteFailureStillRoutes ==
    (SendHandled /\ ~WriteCommitted)
        => IF Online(request.recipient) THEN EmittedDelivered ELSE EmittedOffline

\* a well-formed send the store refused was still emitted to a connection
\* registered under the recipient name
C10_Witness ==
    /\ SendHandled /\ WellFormed /\ ~request.dbok
    /\ Online(request.recipient)
    /\ EmittedDelivered
    /\ emitted[2].message_id = NoId

\* the last handler ran for a register event
RegisterHandled == request.ev = "register"

\* the acknowledgment of the last send: the event emitted last
Ack == emitted[Len(emitted)]

C12_TouchFailureStillRegisters ==
    (RegisterHandled /\ ~TouchOk(request.device, request.dbok))
        => /\ Holds(connected_clients, request.sid, request.device)
           /\ emitted = <<[ev |-> "registered", to |-> request.sid,
                           device |-> request.device, status |-> "success"]>>

\* a register under a device name whose last-seen write the store refused
\* (the devices table is still empty): registered and confirmed
C12_Witness ==
    /\ RegisterHandled /\ request.device \in Names /\ ~request.dbok
    /\ devices = {}
    /\ Holds(connected_clients, request.sid, request.device)
    /\ Len(emitted) = 1 /\ emitted[1].ev = "registered" /\ emitted[1].status = "success"

\* the positions of emitted that hold a receive_emoji
Receives == {i \in 1..Len(emitted) : emitted[i].ev = "receive_emoji"}

\* ----------------------------------------------------------------- C14
\* C14: no handler but the send handler emits receive_emoji (a register
\* delivers nothing), a send emits at most one, none when nobody is registered
\* under the recipient name, and the one it emits is for its own message: it
\* carries the id of the row that very send appended, or a null id.  A message
\* is therefore delivered when it is sent or never, and at most once.
C14_NoOfflineQueuing ==
    /\ ~SendHandled => Receives = {}
    /\ SendHandled
         => /\ Cardinality(Receives) <= 1
            /\ ~Online(request.recipient) => Receives = {}
            /\ \A i \in Receives :
                  emitted[i].message_id = (IF WriteCommitted THEN Len(messages) ELSE NoId)

\* the first register ever handled, under a name the log already holds a
\* message for (sent while nobody was registered): only the confirmation
C14_Witness ==
    /\ RegisterHandled /\ request.device \in Names
    /\ regtime[request.sid] = 1
    /\ \A d \in Sids \ {request.sid} : regtime[d] = 0
    /\ \E i \in 1..Len(messages) : messages[i].recipient = request.device
    /\ Len(emitted) = 1 /\ emitted[1].ev = "registered"

\* ----------------------------------------------------------------- C15
\* C15: after a register on a connection the registry holds exactly one
\* entry for that connection, under the name just given; no other name
\* resolves to that connection.
C15_ReRegisterReassociates ==
    RegisterHandled
        => /\ Cardinality({i \in 1..Len(connected_clients) :
                              connected_clients[i].sid = request.sid}) = 1
           /\ Holds(connected_clients, request.sid, request.device)
           /\ \A a \in NameArg \ {request.device} :
                  /\ ~Holds(connected_clients, request.sid, a)
                  /\ Lookup(connected_clients, a) # request.sid

\* the second register on the same connection, under a different name than
\* the first (the first one's name is in the devices table, no other
\* connection ever registered)
C15_Witness ==
    /\ RegisterHandled /\ request.device \in Names
    /\ regtime[request.sid] = 2
    /\ \A d \in Sids \ {request.sid} : regtime[d] = 0
    /\ \E a \in devices : a # request.device
    /\ Holds(connected_clients, request.sid, request.device)
    /\ Len(connected_clients) = 1

\* ----------------------------------------------------------------- C18
\* C18: the registry holds an entry for a connection, under a name, exactly
\* when the connection is open and its latest register gave that name, one
\* entry for each such connection.  A disconnect therefore removes the entry
\* of its own connection and no other (nothing when it never registered), and
\* the entry of a closed connection never comes back.
C18_DisconnectRemovesOnlyOwnEntry ==
    /\ \A c \in Sids, a \in NameArg :
          Holds(connected_clients, c, a) <=> RegisteredLive(c, a)
    /\ Len(connected_clients) =
          Cardinality({c \in Sids : conn[c] = "open" /\ regtime[c] > 0})
    /\ request.ev = "disconnect"
          => /\ conn[request.sid] = "closed"
             /\ ~HasKey(connected_clients, request.sid)

\* a connection that never registered has just disconnected and the registry
\* still holds the entry of the other connection
C18_Witness ==
    /\ request.ev = "disconnect"
    /\ regtime[request.sid] = 0 /\ conn[request.sid] = "closed"
    /\ \E d \in Sids \ {request.sid} : HasKey(connected_clients, d)

OtaHandled == request.ev = "ota_update"

\* the connections the events of the last step are addressed to
Targets == {emitted[i].to : i \in 1..Len(emitted)}

\* ----------------------------------------------------------------- C16
\* C16: a POST /update for device d emits ota_update exactly once to each
\* connection the registry holds under d and to no other (to every connection
\* of the registry when d is absent), answers with the number of events it
\* emitted, and leaves the registry as it was.
C16_OtaTargetsAndCount ==
    [][request'.ev = "ota_update"
         => /\ connected_clients' = connected_clients
            /\ \A i \in 1..Len(emitted') :
                  /\ emitted'[i].ev = "ota_update"
                  /\ \A j \in 1..Len(emitted') : emitted'[j].to = emitted'[i].to => i = j
            /\ \A c \in Sids :
                  (\E i \in 1..Len(emitted') : emitted'[i].to = c)
                     <=> IF request'.device = None
                         THEN HasKey(connected_clients, c)
                         ELSE Holds(connected_clients, c, request'.device)
            /\ response'.recipients = Len(emitted')]_vars

\* an update for miami with miami and chile both registered: one event, to
\* miami's connection, and a count of one
C16_Witness ==
    /\ OtaHandled /\ request.device = "miami"
    /\ Len(connected_clients) = 2
    /\ \E c, d \in Sids : /\ Holds(connected_clients, c, "miami")
                          /\ Holds(connected_clients, d, "chile")
                          /\ Targets = {c}
    /\ Len(emitted) = 1 /\ response.recipients = 1

\* ----------------------------------------------------------------- C13
\* C13 (as stated): a "delivered" acknowledgment is emitted only together
\* with a receive_emoji addressed to a connection that is still open when the
\* events are handed off.
C13_DeliveredOnlyIfLive ==
    \A i \in 1..Len(emitted) :
        IsAck(emitted[i], "delivered")
            => \E j \in 1..Len(emitted) :
                  /\ emitted[j].ev = "receive_emoji"
                  /\ conn[emitted[j].to] = "open"

\* ----------------------------------------------------------------- C17
\* C17: a send handler that has come to the registry scan, or gone past it,
\* has completed its log write: when the write was accepted the handler holds
\* the id of a row of the table that carries its payload, whatever has become
\* of the recipient's connection since, and when it was rolled back the
\* handler holds a null id.
C17_WriteCompletedBeforeLookup ==
    \A c \in Sids :
        pc(c) \in {"persisted", "resolved"}
            => LET r == running[c]
               IN IF WriteOk(r.sender, r.recipient, r.emoji, r.dbok)
                  THEN /\ r.message_id # NoId
                       /\ \E i \in 1..Len(messages) :
                             messages[i] = [id |-> r.message_id, sender |-> r.sender,
                                            recipient |-> r.recipient, emoji |-> r.emoji]
                  ELSE r.message_id = NoId

\* a send whose write committed has resolved the recipient, and the
\* recipient's connection has closed since: the row is there
C17_Witness ==
    \E c \in Sids :
        /\ pc(c) = "resolved"
        /\ running[c].recipient_sid # NoSid
        /\ conn[running[c].recipient_sid] = "closed"
        /\ running[c].message_id # NoId
        /\ \E i \in 1..Len(messages) : messages[i].id = running[c].message_id

\* ----------------------------------------------------------------- C21
\* C21 (as stated): while a send handler is between two turns of its registry
\* scan, no step changes the registry.
C21_ScansExcludeMutations ==
    [][\A c \in Sids :
          (pc(c) = "scanning" /\ c \in DOMAIN running' /\ running'[c] = running[c])
              => connected_clients' = connected_clients]_vars

\* ----------------------------------------------------------------- C22
\* C22: the sender of the receive_emoji a send emits, and of the row it
\* commits, is the sender field of its payload, whatever name the sending
\* connection is registered under; a recipient that is online is sent the
\* message whoever the payload names as sender.
C22_SenderTakenFromPayload ==
    SendHandled
        => /\ \A i \in Receives : emitted[i].sender = request.sender
           /\ WriteCommitted => messages[Len(messages)].sender = request.sender
           /\ Online(request.recipient) => Receives # {}

\* a connection registered as miami has sent with sender chile: the row and
\* the receive_emoji both say chile
C22_Witness ==
    /\ SendHandled /\ WellFormed /\ WriteCommitted
    /\ RegisteredLive(request.sid, "miami")
    /\ request.sender = "chile"
    /\ messages[Len(messages)].sender = "chile"
    /\ \E i \in Receives : emitted[i].sender = "chile"

\* the server has accepted the connection client d is opening
Established(d) == client[d].pc = "connecting" /\ conn[client[d].sid] = "open"

\* the registry maps device d to the connection its client holds
MappedToPresent(d) ==
    /\ client[d].pc = "connected"
    /\ Holds(connected_clients, client[d].sid, d)
    /\ Lookup(connected_clients, d) = client[d].sid

====
